---- MODULE Spec2Model ----
(***************************************************************************)
(* CulturaLog (Yeomangrok): the App controller (three in-memory            *)
(* collections, active view, edit form), the localStorage persistence      *)
(* helpers, the TMDB search client and the debounced search of MovieForm.  *)
(*                                                                         *)
(* Spec        the controller and the persistence helpers                  *)
(* ClientSpec  tmdbService.searchMovies called directly                    *)
(* SearchSpec  the movie form's debounced search over the TMDB client      *)
(* AppSpec     the controller and the movie form's search together         *)
(***************************************************************************)
EXTENDS Integers, Sequences, FiniteSets, TLC

\* ------------------------------------------------------------------ bounds
MaxMint == 1        \* number of crypto.randomUUID() calls in a run
MaxOps == 2         \* number of saves and confirmed deletes in a run
MaxForms == 2       \* number of distinct contents a submitted form may hold
MaxQuery == 2       \* number of distinct non-empty query texts
MaxBurst == 3       \* query text changes between two expiries of the timer
MaxCalls == 2       \* calls of searchMovies by one form, or by one client run
AppBudget == 2      \* AppSpec: saves, deletes, search calls and pending text changes

\* --------------------------------------------------------------- constants
ActivityType == {"movie", "book", "event"}

STORAGE_KEY_MOVIES == "culturaLog_movies"
STORAGE_KEY_BOOKS == "culturaLog_books"
STORAGE_KEY_EVENTS == "culturaLog_events"

StorageKeys == {STORAGE_KEY_MOVIES, STORAGE_KEY_BOOKS, STORAGE_KEY_EVENTS}

KeyOf(type) ==
    CASE type = "movie" -> STORAGE_KEY_MOVIES
      [] type = "book" -> STORAGE_KEY_BOOKS
      [] type = "event" -> STORAGE_KEY_EVENTS

\* the value TMDB_API_KEY holds in the repository, and one a deployment sets
TMDB_API_KEY == "YOUR_TMDB_API_KEY_HERE"

ConfiguredKey == "a-tmdb-key"

QueryTexts == <<"d", "du", "dun", "dune">>

Queries == {""} \cup {QueryTexts[i] : i \in 1..MaxQuery}

\* ------------------------------------------------------------------- items
\* A date is the ISO string "YYYY-MM-DD", kept as <<year, month, day>>.
DateOf(i) == <<2023 + (i % 2), 12 - i, 1 + i>>

\* what a form holds at submit: its date and its rating (the rating stands
\* for the rest of the content: title, review and the extensions)
FormOf(i) == [date |-> DateOf(1 + (i % 2)), rating |-> i \div 2]

Forms == {FormOf(i) : i \in 1..MaxForms}

\* the id of the record found in storage at startup; minted ids follow it
StoredId == 1

FirstMintedId == 2

\* BaseActivity with its tag: id, type, date, rating
Activity(id, type, date, rating) ==
    [id |-> id, type |-> type, date |-> date, rating |-> rating]

\* editingItem = null
None == [id |-> 0, type |-> "none", date |-> <<0, 0, 0>>, rating |-> 0]

\* ------------------------------------------------------------ JSON, storage
\* JSON.stringify of an array of records: one tuple of field values each
StringifyItem(it) == <<it.id, it.type, it.date, it.rating>>

\* a serialisation that loses the last record of the array
Stringify_DropsLast(items) ==
    [i \in 1..(Len(items) - 1) |-> StringifyItem(items[i])]

\* JSON.stringify(items)
Stringify(items) == [i \in 1..Len(items) |-> StringifyItem(items[i])]

ParseItem(t) == [id |-> t[1], type |-> t[2], date |-> t[3], rating |-> t[4]]

\* a stored blob: absent (getItem gives null), a text JSON.parse rejects, a
\* JSON text that is not an array, or the JSON text of an array
Blob(kind, recs) == [kind |-> kind, recs |-> recs]

Absent == Blob("absent", <<>>)
Garbage == Blob("garbage", <<>>)
NonArray == Blob("nonarray", <<>>)

\* what JSON.parse / getItemsFromStorage hand back: an array or another value
Value(isArray, items) == [isArray |-> isArray, items |-> items]

JSONParse(blob) ==
    IF blob.kind = "array"
    THEN Value(TRUE, [i \in 1..Len(blob.recs) |-> ParseItem(blob.recs[i])])
    ELSE Value(FALSE, <<>>)

getItemsFromStorage(blob, readOk) ==
    IF ~readOk THEN Value(TRUE, <<>>)                  \* getItem throws
    ELSE IF blob.kind = "absent" THEN Value(TRUE, <<>>) \* itemsJson falsy
    ELSE IF blob.kind = "garbage" THEN Value(TRUE, <<>>) \* parse throws
    ELSE JSONParse(blob)

\* a failed write that leaves the key truncated to an empty array
saveItemsToStorage_Truncates(blob, items, writeOk) ==
    IF writeOk THEN Blob("array", Stringify(items)) ELSE Blob("array", <<>>)

\* the blob under a key after saveItemsToStorage(key, items)
saveItemsToStorage(blob, items, writeOk) ==
    IF writeOk THEN Blob("array", Stringify(items)) ELSE blob

\* ------------------------------------------------------------------- state
VARIABLES
    storage,        \* localStorage: key -> blob
    phase,          \* "mount" before the startup effect, "ready", "crashed"
    movies, books, events,      \* useState collections
    currentView,
    isModalOpen,
    editingItem,
    nextId,         \* the next id crypto.randomUUID() gives
    opCount,        \* saves and confirmed deletes so far
    loaded,         \* what the startup load got for each type
    lastOp,         \* the last save or confirmed delete
    prevOp,         \* the save or confirmed delete before lastOp
    apiKey,         \* the value of TMDB_API_KEY in this build
    searchQuery,    \* MovieForm state
    debouncedSearchQuery,   \* useDebounce state
    timer,          \* the setTimeout handler of useDebounce, with its value
    searchResults,
    isLoading,
    requests,       \* the calls of searchMovies, in call order
    fetchCount,     \* outbound requests issued
    burstLen,       \* query text changes since the timer last expired
    lastFire        \* the last expiry of the timer

ctrlVars == <<storage, phase, movies, books, events, currentView, isModalOpen,
              editingItem, nextId, opCount, loaded, lastOp, prevOp>>

formVars == <<searchQuery, debouncedSearchQuery, timer, searchResults,
              isLoading, requests, fetchCount, burstLen, lastFire>>

vars == <<ctrlVars, apiKey, formVars>>

Coll(type) ==
    CASE type = "movie" -> movies
      [] type = "book" -> books
      [] type = "event" -> events

NoOp == [kind |-> "none", type |-> "movie", item |-> None, editing |-> FALSE,
         before |-> <<>>, blobBefore |-> Absent, writeOk |-> TRUE]

\* what is kept of the call before the last: its kind, its item, whether the
\* collection held the item's id before it, and whether its write succeeded
Prev(op) ==
    [kind |-> op.kind, item |-> op.item,
     existed |-> \E i \in 1..Len(op.before) : op.before[i].id = op.item.id,
     writeOk |-> op.writeOk]

NoPrev == Prev(NoOp)

\* the array found in storage at startup, when there is one
StoredArray(type) ==
    Blob("array", Stringify(<<Activity(StoredId, type, DateOf(2), 0)>>))

InitialBlobs(type) == {Absent, Garbage, NonArray, StoredArray(type)}

\* localStorage at startup: at most one of the three keys holds a blob
InitialStorages ==
    {s \in [StorageKeys -> UNION {InitialBlobs(t) : t \in ActivityType}] :
        /\ \A t \in ActivityType : s[KeyOf(t)] \in InitialBlobs(t)
        /\ Cardinality({k \in StorageKeys : s[k] # Absent}) <= 1}

\* a MovieForm that has just mounted (timerSet), or none
NoFire == [changes |-> 0, final |-> "", was |-> "", calls |-> 0]

NoTimer == [set |-> FALSE, value |-> ""]

Timer(value) == [set |-> TRUE, value |-> value]

FormInit(timerSet) ==
    /\ searchQuery = ""
    /\ debouncedSearchQuery = ""
    /\ timer = IF timerSet THEN Timer("") ELSE NoTimer
    /\ searchResults = <<>>
    /\ isLoading = FALSE
    /\ requests = <<>>
    /\ fetchCount = 0
    /\ burstLen = 0
    /\ lastFire = NoFire

CtrlInit ==
    /\ phase = "mount"
    /\ movies = <<>>
    /\ books = <<>>
    /\ events = <<>>
    /\ currentView = "movie"
    /\ isModalOpen = FALSE
    /\ editingItem = None
    /\ nextId = FirstMintedId
    /\ opCount = 0
    /\ loaded = [t \in ActivityType |-> Value(TRUE, <<>>)]
    /\ lastOp = NoOp
    /\ prevOp = NoPrev

Init ==
    /\ storage \in InitialStorages
    /\ CtrlInit
    /\ apiKey = TMDB_API_KEY
    /\ FormInit(FALSE)

\* the form getModalContent renders: itemToEdit?.type || currentView
FormView == IF editingItem # None THEN editingItem.type ELSE currentView

\* Modal renders its children only when open
MovieFormShown == isModalOpen /\ FormView = "movie"

\* A MovieForm that stays rendered keeps its state; one that mounts starts
\* from its useState defaults with the debounce timer set; unmounting clears
\* the timer, and responses to the requests of an unmounted form set nothing.
FormStep ==
    IF MovieFormShown /\ MovieFormShown'
    THEN UNCHANGED formVars
    ELSE /\ searchQuery' = ""
         /\ debouncedSearchQuery' = ""
         /\ timer' = IF MovieFormShown' THEN Timer("") ELSE NoTimer
         /\ searchResults' = <<>>
         /\ isLoading' = FALSE
         /\ requests' = <<>>
         /\ fetchCount' = 0
         /\ burstLen' = 0
         /\ lastFire' = NoFire

\* useEffect(() => { setMovies(getMovies()); ... }, [])
\* A value that is not an array makes [...movies].sort throw in the next
\* render: the tree unmounts.
StartupLoad ==
    /\ phase = "mount"
    /\ \E readOk \in [ActivityType -> BOOLEAN] :
         LET got == [t \in ActivityType |->
                        getItemsFromStorage(storage[KeyOf(t)], readOk[t])]
         IN /\ loaded' = got
            /\ movies' = got["movie"].items
            /\ books' = got["book"].items
            /\ events' = got["event"].items
            /\ phase' = IF \A t \in ActivityType : got[t].isArray
                        THEN "ready" ELSE "crashed"
    /\ UNCHANGED <<storage, currentView, isModalOpen, editingItem, nextId,
                   opCount, lastOp, prevOp, apiKey, formVars>>

\* ------------------------------------------------------------ the controller
Ready == phase = "ready"

\* a setter that also resets the collections of the other categories
SetColl_ResetsOthers(type, items) ==
    /\ movies' = IF type = "movie" THEN items ELSE <<>>
    /\ books' = IF type = "book" THEN items ELSE <<>>
    /\ events' = IF type = "event" THEN items ELSE <<>>

\* setMovies / setBooks / setEvents: one collection takes a new value
SetColl(type, items) ==
    /\ movies' = IF type = "movie" THEN items ELSE movies
    /\ books' = IF type = "book" THEN items ELSE books
    /\ events' = IF type = "event" THEN items ELSE events

\* onNavigate={setCurrentView}
SelectCategory(view) ==
    /\ Ready
    /\ currentView' = view
    /\ UNCHANGED <<storage, phase, movies, books, events, isModalOpen,
                   editingItem, nextId, opCount, loaded, lastOp, prevOp, apiKey>>
    /\ FormStep

\* handleOpenModal(itemToEdit?): the "Add New" button, or Edit on a card of
\* the displayed collection
handleOpenModal(itemToEdit) ==
    /\ Ready
    /\ editingItem' = itemToEdit
    /\ isModalOpen' = TRUE
    /\ UNCHANGED <<storage, phase, movies, books, events, currentView,
                   nextId, opCount, loaded, lastOp, prevOp, apiKey>>
    /\ FormStep

BeginCreate == handleOpenModal(None)

BeginEdit ==
    \E i \in 1..Len(Coll(currentView)) :
        handleOpenModal(Coll(currentView)[i])

\* a close that forgets setEditingItem(null)
handleCloseModal_KeepsItem ==
    /\ Ready
    /\ isModalOpen
    /\ isModalOpen' = FALSE
    /\ editingItem' = editingItem
    /\ UNCHANGED <<storage, phase, movies, books, events, currentView,
                   nextId, opCount, loaded, lastOp, prevOp, apiKey>>
    /\ FormStep

\* handleCloseModal, from Cancel, the close button or the backdrop
handleCloseModal ==
    /\ Ready
    /\ isModalOpen
    /\ isModalOpen' = FALSE
    /\ editingItem' = None
    /\ UNCHANGED <<storage, phase, movies, books, events, currentView,
                   nextId, opCount, loaded, lastOp, prevOp, apiKey>>
    /\ FormStep

\* movies.map(m => m.id === movie.id ? movie : m)
MapReplace(items, item) ==
    [i \in 1..Len(items) |-> IF items[i].id = item.id THEN item ELSE items[i]]

\* the save without its edit branch: always [...movies, movie]
NewItems_AlwaysAppend(items, item, editing) == Append(items, item)

\* const newMovies = editingItem ? movies.map(...) : [...movies, movie]
NewItems(items, item, editing) ==
    IF editing # None THEN MapReplace(items, item) ELSE Append(items, item)

\* XForm.handleSubmit followed by handleSaveX(finalData):
\*   id: itemToEdit?.id || crypto.randomUUID()
\*   setX(newItems); storageService.saveX(newItems); handleCloseModal()
Submit(formData, writeOk) ==
    /\ Ready
    /\ isModalOpen
    /\ opCount < MaxOps
    /\ LET type == FormView
           mint == editingItem.id = 0
           finalData == Activity(IF mint THEN nextId ELSE editingItem.id,
                                 type, formData.date, formData.rating)
           newItems == NewItems(Coll(type), finalData, editingItem)
       IN /\ mint => nextId < FirstMintedId + MaxMint
          /\ nextId' = IF mint THEN nextId + 1 ELSE nextId
          /\ SetColl(type, newItems)
          /\ storage' = [storage EXCEPT ![KeyOf(type)] =
                            saveItemsToStorage(@, newItems, writeOk)]
          /\ lastOp' = [kind |-> "save", type |-> type, item |-> finalData,
                        editing |-> editingItem # None,
                        before |-> Coll(type),
                        blobBefore |-> storage[KeyOf(type)],
                        writeOk |-> writeOk]
    /\ isModalOpen' = FALSE
    /\ editingItem' = None
    /\ prevOp' = Prev(lastOp)
    /\ opCount' = opCount + 1
    /\ UNCHANGED <<phase, currentView, loaded, apiKey>>
    /\ FormStep

\* the filter with its test inverted: m.id === id
RECURSIVE FilterOut_Inverted(_, _)
FilterOut_Inverted(items, id) ==
    IF items = <<>> THEN <<>>
    ELSE IF Head(items).id # id THEN FilterOut_Inverted(Tail(items), id)
    ELSE <<Head(items)>> \o FilterOut_Inverted(Tail(items), id)

\* movies.filter(m => m.id !== id)
RECURSIVE FilterOut(_, _)
FilterOut(items, id) ==
    IF items = <<>> THEN <<>>
    ELSE IF Head(items).id = id THEN FilterOut(Tail(items), id)
    ELSE <<Head(items)>> \o FilterOut(Tail(items), id)

\* handleDelete(id, type), from Delete on a card of the displayed collection,
\* window.confirm answered yes
DeleteConfirmed(writeOk) ==
    /\ Ready
    /\ opCount < MaxOps
    /\ \E i \in 1..Len(Coll(currentView)) :
         LET type == currentView
             id == Coll(type)[i].id
             updated == FilterOut(Coll(type), id)
         IN /\ SetColl(type, updated)
            /\ storage' = [storage EXCEPT ![KeyOf(type)] =
                              saveItemsToStorage(@, updated, writeOk)]
            /\ lastOp' = [kind |-> "delete", type |-> type,
                          item |-> Coll(type)[i], editing |-> FALSE,
                          before |-> Coll(type),
                          blobBefore |-> storage[KeyOf(type)],
                          writeOk |-> writeOk]
    /\ prevOp' = Prev(lastOp)
    /\ opCount' = opCount + 1
    /\ UNCHANGED <<phase, currentView, isModalOpen, editingItem, nextId,
                   loaded, apiKey, formVars>>

\* handleDelete(id, type), window.confirm answered no
DeleteDeclined ==
    /\ Ready
    /\ Coll(currentView) # <<>>
    /\ UNCHANGED vars

\* ------------------------------------------------------- the display list
\* days since 1970-01-01 of a calendar date: new Date(date).getTime() is
\* this number times 86400000
getTime(date) ==
    LET y == IF date[2] <= 2 THEN date[1] - 1 ELSE date[1]
        era == y \div 400
        yoe == y - era * 400
        mp == IF date[2] > 2 THEN date[2] - 3 ELSE date[2] + 9
        doy == (153 * mp + 2) \div 5 + date[3] - 1
        doe == yoe * 365 + yoe \div 4 - yoe \div 100 + doy
    IN era * 146097 + doe - 719468

\* the comparator with its operands swapped: oldest first
sortFn_Ascending(a, b) == getTime(a.date) - getTime(b.date)

\* sortFn = (a, b) => new Date(b.date).getTime() - new Date(a.date).getTime()
sortFn(a, b) == getTime(b.date) - getTime(a.date)

\* Array.prototype.sort(sortFn) on a copy: a stable sort, x goes before the
\* first element that sortFn puts after it
RECURSIVE InsertSorted(_, _)
InsertSorted(sorted, x) ==
    IF sorted = <<>> THEN <<x>>
    ELSE IF sortFn(Head(sorted), x) > 0 THEN <<x>> \o sorted
    ELSE <<Head(sorted)>> \o InsertSorted(Tail(sorted), x)

RECURSIVE SortCopy(_)
SortCopy(items) ==
    IF items = <<>> THEN <<>>
    ELSE InsertSorted(SortCopy(SubSeq(items, 1, Len(items) - 1)),
                      items[Len(items)])

\* useMemo(() => [...X].sort(sortFn), [currentView, movies, books, events])
sortedItems == SortCopy(Coll(currentView))

\* --------------------------------------------------------- the TMDB client
\* what an async call resolves to (or that it rejects)
Resolved(isArray, items) == [raised |-> FALSE, isArray |-> isArray, items |-> items]

\* a call whose fetch has not settled yet has resolved to nothing
Unsettled == [raised |-> FALSE, isArray |-> FALSE, items |-> <<>>]

\* TmdbMovieSearchResult of a query
Candidate(query) == [id |-> 1, title |-> query]

\* the results a success response may carry for a query
ResultLists(query) == {<<>>, <<Candidate(query)>>}

\* what fetch and the response may do
Outcomes == {"neterr", "httperr", "badjson", "ok"}

\* the guard without its credential test: if (!query) return []
searchMoviesFetches_QueryOnly(query, key) == query # ""

\* searchMovies: if (!query || TMDB_API_KEY === 'YOUR_TMDB_API_KEY_HERE')
\* return [] -- otherwise it goes on to fetch
searchMoviesFetches(query, key) == ~(query = "" \/ key = TMDB_API_KEY)

\* searchMovies without its !response.ok test: the error body has no results
searchMoviesResult_NoOkTest(outcome, results) ==
    CASE outcome = "neterr" -> Resolved(TRUE, <<>>)
      [] outcome = "httperr" -> Resolved(FALSE, <<>>)
      [] outcome = "badjson" -> Resolved(TRUE, <<>>)
      [] outcome = "ok" -> Resolved(TRUE, results)

\* searchMovies after its fetch: fetch rejects, !response.ok throws and
\* response.json() rejects all end in the catch; otherwise data.results
searchMoviesResult(outcome, results) ==
    CASE outcome = "neterr" -> Resolved(TRUE, <<>>)
      [] outcome = "httperr" -> Resolved(TRUE, <<>>)
      [] outcome = "badjson" -> Resolved(TRUE, <<>>)
      [] outcome = "ok" -> Resolved(TRUE, results)

\* one call of searchMovies in the log: it waits for its fetch, or it has
\* returned [] without one
Call(query, fetch) ==
    [query |-> query, fetch |-> fetch, pending |-> fetch,
     outcome |-> IF fetch THEN "none" ELSE "nofetch",
     result |-> IF fetch THEN Unsettled ELSE Resolved(TRUE, <<>>)]

\* a caller other than the form calls tmdbService.searchMovies(query)
CallSearch(query) ==
    /\ Len(requests) < MaxCalls
    /\ requests' = Append(requests, Call(query, searchMoviesFetches(query, apiKey)))
    /\ fetchCount' = IF searchMoviesFetches(query, apiKey)
                     THEN fetchCount + 1 ELSE fetchCount
    /\ UNCHANGED <<ctrlVars, apiKey, searchQuery, debouncedSearchQuery, timer,
                   searchResults, isLoading, burstLen, lastFire>>

\* the fetch of call i settles and the call resolves
Settle(i, outcome, results) ==
    requests' = [requests EXCEPT ![i] =
                    [@ EXCEPT !.pending = FALSE, !.outcome = outcome,
                              !.result = searchMoviesResult(outcome, results)]]

ResolveSearch ==
    \E i \in 1..Len(requests) :
        /\ requests[i].pending
        /\ \E outcome \in Outcomes, results \in ResultLists(requests[i].query) :
             Settle(i, outcome, results)
        /\ UNCHANGED <<ctrlVars, apiKey, searchQuery, debouncedSearchQuery,
                       timer, searchResults, isLoading, fetchCount, burstLen,
                       lastFire>>

\* ------------------------------------------------- MovieForm: the search box
\* the search box without the debounce: every change of the text searches
setSearchQuery_Undebounced(query) ==
    /\ Ready
    /\ MovieFormShown
    /\ query # searchQuery
    /\ burstLen < MaxBurst
    /\ query # "" => Len(requests) < MaxCalls
    /\ searchQuery' = query
    /\ debouncedSearchQuery' = query
    /\ timer' = Timer(query)
    /\ burstLen' = burstLen + 1
    /\ requests' = IF query # ""
                   THEN Append(requests, Call(query, searchMoviesFetches(query, apiKey)))
                   ELSE requests
    /\ fetchCount' = IF searchMoviesFetches(query, apiKey)
                     THEN fetchCount + 1 ELSE fetchCount
    /\ isLoading' = searchMoviesFetches(query, apiKey)
    /\ searchResults' = IF searchMoviesFetches(query, apiKey)
                        THEN searchResults ELSE <<>>
    /\ UNCHANGED <<ctrlVars, apiKey, lastFire>>

\* onChange={e => setSearchQuery(e.target.value)}; the useDebounce effect
\* clears the pending timer and sets a new one for the new value
setSearchQuery(query) ==
    /\ Ready
    /\ MovieFormShown
    /\ query # searchQuery
    /\ burstLen < MaxBurst
    /\ searchQuery' = query
    /\ timer' = Timer(query)
    /\ burstLen' = burstLen + 1
    /\ UNCHANGED <<ctrlVars, apiKey, debouncedSearchQuery, searchResults,
                   isLoading, requests, fetchCount, lastFire>>

\* the timer expires: setDebouncedValue(value); when that changes
\* debouncedSearchQuery the search effect runs: a call of searchMovies for a
\* non-empty value, setSearchResults([]) for the empty one.  A call that
\* does not fetch resolves to [] at once.
TimerFire ==
    /\ Ready
    /\ MovieFormShown
    /\ timer.set
    /\ LET value == timer.value
           changed == value # debouncedSearchQuery
           calls == changed /\ value # ""
           fetches == calls /\ searchMoviesFetches(value, apiKey)
       IN /\ calls => Len(requests) < MaxCalls
          /\ debouncedSearchQuery' = value
          /\ requests' = IF calls THEN Append(requests, Call(value, fetches))
                         ELSE requests
          /\ fetchCount' = IF fetches THEN fetchCount + 1 ELSE fetchCount
          /\ isLoading' = IF calls THEN fetches ELSE isLoading
          /\ searchResults' = IF changed /\ ~fetches THEN <<>> ELSE searchResults
          /\ lastFire' = [changes |-> burstLen, final |-> value,
                          was |-> debouncedSearchQuery, calls |-> Len(requests)]
    /\ timer' = NoTimer
    /\ burstLen' = 0
    /\ UNCHANGED <<ctrlVars, apiKey, searchQuery>>

\* a form that drops the response of every call but the latest
SearchResponse_LatestOnly ==
    /\ Ready
    /\ MovieFormShown
    /\ \E i \in 1..Len(requests) :
        /\ requests[i].pending
        /\ \E outcome \in Outcomes, results \in ResultLists(requests[i].query) :
             /\ Settle(i, outcome, results)
             /\ searchResults' = IF i = Len(requests)
                                 THEN searchMoviesResult(outcome, results).items
                                 ELSE searchResults
        /\ isLoading' = (i # Len(requests) /\ isLoading)
    /\ UNCHANGED <<ctrlVars, apiKey, searchQuery, debouncedSearchQuery, timer,
                   fetchCount, burstLen, lastFire>>

\* const results = await tmdbService.searchMovies(...) resumes:
\* setSearchResults(results); setIsLoading(false)
SearchResponse ==
    /\ Ready
    /\ MovieFormShown
    /\ \E i \in 1..Len(requests) :
        /\ requests[i].pending
        /\ \E outcome \in Outcomes, results \in ResultLists(requests[i].query) :
             /\ Settle(i, outcome, results)
             /\ searchResults' = searchMoviesResult(outcome, results).items
        /\ isLoading' = FALSE
    /\ UNCHANGED <<ctrlVars, apiKey, searchQuery, debouncedSearchQuery, timer,
                   fetchCount, burstLen, lastFire>>

\* handleSelectMovie(movie): setFormData(...); setSearchQuery('');
\* setSearchResults([])
handleSelectMovie ==
    /\ Ready
    /\ MovieFormShown
    /\ searchResults # <<>>
    /\ searchQuery' = ""
    /\ searchResults' = <<>>
    /\ timer' = IF searchQuery # "" THEN Timer("") ELSE timer
    /\ burstLen' = IF searchQuery # "" /\ burstLen < MaxBurst
                   THEN burstLen + 1 ELSE burstLen
    /\ UNCHANGED <<ctrlVars, apiKey, debouncedSearchQuery, isLoading,
                   requests, fetchCount, lastFire>>

\* ------------------------------------------------------------ specification
Next ==
    \/ StartupLoad
    \/ \E view \in ActivityType : SelectCategory(view)
    \/ BeginCreate
    \/ BeginEdit
    \/ handleCloseModal
    \/ \E formData \in Forms, ok \in BOOLEAN : Submit(formData, ok)
    \/ \E ok \in BOOLEAN : DeleteConfirmed(ok)
    \/ DeleteDeclined

Spec == Init /\ [][Next]_vars

\* the TMDB client called directly, with either value of the credential
ClientInit ==
    /\ storage = [k \in StorageKeys |-> Absent]
    /\ CtrlInit
    /\ apiKey \in {TMDB_API_KEY, ConfiguredKey}
    /\ FormInit(FALSE)

ClientNext ==
    \/ \E query \in Queries : CallSearch(query)
    \/ ResolveSearch

ClientSpec == ClientInit /\ [][ClientNext]_vars

\* the movie form over an empty log, after the startup load
SearchInit ==
    /\ storage = [k \in StorageKeys |-> Absent]
    /\ phase = "ready"
    /\ movies = <<>>
    /\ books = <<>>
    /\ events = <<>>
    /\ currentView = "movie"
    /\ isModalOpen = FALSE
    /\ editingItem = None
    /\ nextId = FirstMintedId
    /\ opCount = 0
    /\ loaded = [t \in ActivityType |-> Value(TRUE, <<>>)]
    /\ lastOp = NoOp
    /\ prevOp = NoPrev
    /\ apiKey \in {TMDB_API_KEY, ConfiguredKey}
    /\ FormInit(FALSE)

SearchNext ==
    \/ BeginCreate
    \/ handleCloseModal
    \/ \E query \in Queries : setSearchQuery(query)
    \/ TimerFire
    \/ SearchResponse
    \/ handleSelectMovie

SearchSpec == SearchInit /\ [][SearchNext]_vars

\* the whole application in a build with a credential: the controller and
\* the movie form's search together, over a log that is empty or holds one
\* well-formed array
AppInit ==
    /\ storage \in {s \in InitialStorages :
                        \A k \in StorageKeys : s[k].kind \in {"absent", "array"}}
    /\ CtrlInit
    /\ apiKey = ConfiguredKey
    /\ FormInit(FALSE)

AppBound == opCount + Len(requests) + burstLen <= AppBudget

AppNext ==
    \/ StartupLoad
    \/ \E view \in ActivityType : SelectCategory(view)
    \/ BeginCreate
    \/ BeginEdit
    \/ handleCloseModal
    \/ \E formData \in Forms, ok \in BOOLEAN : Submit(formData, ok) /\ AppBound'
    \/ \E ok \in BOOLEAN : DeleteConfirmed(ok) /\ AppBound'
    \/ DeleteDeclined
    \/ \E query \in Queries : setSearchQuery(query) /\ AppBound'
    \/ TimerFire /\ AppBound'
    \/ SearchResponse
    \/ handleSelectMovie /\ AppBound'

AppSpec == AppInit /\ [][AppNext]_vars

\* ------------------------------------------------------------------ claims
\* what the last save or confirmed delete worked on, and what it left
OpDone == lastOp.kind # "none"
OpKey == KeyOf(lastOp.type)
OpBefore == lastOp.before
OpAfter == Coll(lastOp.type)
OpItem == lastOp.item

Positions(items, id) == {i \in 1..Len(items) : items[i].id = id}

RemoveAt(items, p) == SubSeq(items, 1, p - 1) \o SubSeq(items, p + 1, Len(items))

\* load(category) with working storage
Load(type) == getItemsFromStorage(storage[KeyOf(type)], TRUE)

\* the stored blob of a category holds exactly this collection
BlobHolds(type, items) ==
    /\ storage[KeyOf(type)].kind = "array"
    /\ Load(type) = Value(TRUE, items)

\* C1: a save replaces exactly the record with the item's id at its position
\* when the collection has one, and appends the item otherwise, whether the
\* form was opened for create or for edit.
C1_SaveUpserts ==
    lastOp.kind = "save" =>
        IF Positions(OpBefore, OpItem.id) # {}
        THEN /\ Len(OpAfter) = Len(OpBefore)
             /\ \E p \in Positions(OpBefore, OpItem.id) :
                  /\ OpAfter[p] = OpItem
                  /\ \A j \in 1..Len(OpBefore) : j # p => OpAfter[j] = OpBefore[j]
        ELSE OpAfter = Append(OpBefore, OpItem)

\* C2: after save(I) with working storage, load of I's category has exactly
\* one record with I's id, and that record is I.
C2_SaveThenLoad ==
    (lastOp.kind = "save" /\ lastOp.writeOk) =>
        /\ Load(lastOp.type).isArray
        /\ Cardinality(Positions(Load(lastOp.type).items, OpItem.id)) = 1
        /\ \A p \in Positions(Load(lastOp.type).items, OpItem.id) :
             Load(lastOp.type).items[p] = OpItem

\* the in-memory part of C3: one record fewer, none with the deleted id, every
\* other record kept in place
DeleteRemovesOne ==
    /\ Len(OpAfter) = Len(OpBefore) - 1
    /\ Positions(OpAfter, OpItem.id) = {}
    /\ \E p \in Positions(OpBefore, OpItem.id) : OpAfter = RemoveAt(OpBefore, p)

\* C3 as stated: a confirmed delete leaves N-1 records, none with that id, all
\* others kept, and the stored blob holds exactly that reduced collection.
C3_DeletePersistsAlways ==
    lastOp.kind = "delete" =>
        DeleteRemovesOne /\ BlobHolds(lastOp.type, OpAfter)

\* C3 amended: the same, the stored blob holding the reduced collection when
\* the storage write of the delete succeeds.
C3_DeleteRemoves ==
    lastOp.kind = "delete" =>
        /\ DeleteRemovesOne
        /\ lastOp.writeOk => BlobHolds(lastOp.type, OpAfter)

C3_Witness ==
    /\ lastOp.kind = "delete"
    /\ lastOp.writeOk
    /\ Len(OpBefore) >= 2
    /\ prevOp.kind = "save"

\* two saves in a row of one item, identical in content, whose id was in the
\* collection before the first
SavedTwice ==
    /\ lastOp.kind = "save"
    /\ prevOp.kind = "save"
    /\ prevOp.item = lastOp.item
    /\ prevOp.existed

\* C4 as stated: the second of two identical saves of an existing id leaves
\* the collection and the stored blob as the first left them.
C4_SecondSaveChangesNothing ==
    SavedTwice =>
        /\ OpAfter = OpBefore
        /\ storage[OpKey] = lastOp.blobBefore

\* C4 amended: the collection is as the first save left it, and so is the
\* stored blob unless the first write failed and the second succeeded.
C4_SaveIdempotent ==
    SavedTwice =>
        /\ OpAfter = OpBefore
        /\ ~(~prevOp.writeOk /\ lastOp.writeOk) => storage[OpKey] = lastOp.blobBefore

C4_Witness ==
    /\ SavedTwice
    /\ prevOp.writeOk
    /\ lastOp.writeOk
    /\ lastOp.editing
    /\ BlobHolds(lastOp.type, OpAfter)

\* d1 is a later calendar date than d2
DateLater(d1, d2) ==
    \/ d1[1] > d2[1]
    \/ d1[1] = d2[1] /\ d1[2] > d2[2]
    \/ d1[1] = d2[1] /\ d1[2] = d2[2] /\ d1[3] > d2[3]

Occurrences(items, x) == Cardinality({i \in 1..Len(items) : items[i] = x})

IsPermutation(a, b) ==
    /\ Len(a) = Len(b)
    /\ \A i \in 1..Len(b) : Occurrences(a, b[i]) = Occurrences(b, b[i])

\* C5: the display list is a permutation of the active collection in which a
\* record with a later date never follows one with an earlier date, and a
\* step that only recomputes it leaves collections and storage as they were.
C5_DisplaySorted ==
    /\ [](Ready =>
            /\ IsPermutation(sortedItems, Coll(currentView))
            /\ \A i, j \in 1..Len(sortedItems) :
                 DateLater(sortedItems[i].date, sortedItems[j].date) => i < j)
    /\ [][currentView' # currentView =>
            /\ movies' = movies /\ books' = books /\ events' = events
            /\ storage' = storage]_vars

C5_Witness ==
    /\ Ready
    /\ Len(sortedItems) >= 2
    /\ sortedItems # Coll(currentView)
    /\ sortedItems[1].date # sortedItems[2].date

\* C6: load never raises and returns a sequence, the empty one whenever the
\* blob is absent, unreadable, unparsable or not an array of records.
C6_LoadAlwaysSequence ==
    (phase # "mount" /\ opCount = 0) =>
        \A t \in ActivityType :
            /\ loaded[t].isArray
            /\ storage[KeyOf(t)].kind # "array" => loaded[t].items = <<>>

\* C7 as stated: after a failed write the in-memory and the stored collection
\* of that category differ.
C7_FailedWriteDiverges ==
    (OpDone /\ ~lastOp.writeOk) => Load(lastOp.type).items # OpAfter

\* C7 amended: a failed write raises nothing and is not retried; the
\* collection takes its new value, the stored blob keeps its old one, and the
\* form is closed by the save.
C7_FailedWriteSwallowed ==
    /\ []((OpDone /\ ~lastOp.writeOk) =>
            /\ phase = "ready"
            /\ storage[OpKey] = lastOp.blobBefore
            /\ lastOp.kind = "delete" => Positions(OpAfter, OpItem.id) = {}
            /\ (lastOp.kind = "save" /\ ~lastOp.editing) =>
                 /\ Len(OpAfter) = Len(OpBefore) + 1
                 /\ OpAfter[Len(OpAfter)] = OpItem
            /\ (lastOp.kind = "save" /\ lastOp.editing) =>
                 \A p \in Positions(OpBefore, OpItem.id) : OpAfter[p] = OpItem)
    /\ [][(opCount' # opCount /\ lastOp'.kind = "save" /\ ~lastOp'.writeOk) =>
            (~isModalOpen' /\ editingItem' = None)]_vars

C7_Witness ==
    /\ OpDone
    /\ ~lastOp.writeOk
    /\ lastOp.kind = "save"
    /\ Load(lastOp.type).items # OpAfter
    /\ ~isModalOpen

\* the calls that had a non-empty query and a configured credential
Configured(i) == requests[i].query # "" /\ apiKey # TMDB_API_KEY

\* C8: a call of search with an empty query, or made without a usable
\* credential, returns the empty sequence and issues no outbound request.
C8_NoRequestWithoutQueryOrKey ==
    /\ \A i \in 1..Len(requests) :
         ~Configured(i) =>
            /\ ~requests[i].fetch
            /\ ~requests[i].pending
            /\ requests[i].result = Resolved(TRUE, <<>>)
    /\ fetchCount = Cardinality({i \in 1..Len(requests) : Configured(i)})

C8_Witness ==
    /\ apiKey = ConfiguredKey
    /\ \E i, j \in 1..Len(requests) :
         /\ requests[i].query = ""
         /\ requests[j].fetch
         /\ fetchCount = 1

FireCalls == SubSeq(requests, lastFire.calls + 1, Len(requests))

OthersUnchanged(type) ==
    \A t \in ActivityType \ {type} :
        /\ Coll(t)' = Coll(t)
        /\ storage'[KeyOf(t)] = storage[KeyOf(t)]

\* C11: once the startup load is done, a step that is not a save or a
\* confirmed delete (select category, begin edit, cancel, declined delete,
\* a text change, a timer expiry, the arrival of a search response, accepting
\* a suggestion) leaves the three collections and the three stored blobs
\* unchanged, and a save or confirmed delete in a category leaves the
\* collections and blobs of the other two categories unchanged.
C11_OnlySaveAndDeleteChange ==
    [][Ready =>
         /\ opCount' = opCount =>
              /\ movies' = movies /\ books' = books /\ events' = events
              /\ storage' = storage
         /\ opCount' # opCount => OthersUnchanged(lastOp'.type)]_vars

C11_Witness ==
    /\ \E i \in 1..Len(requests) : requests[i].fetch /\ ~requests[i].pending
    /\ lastOp.kind = "save"
    /\ lastOp.type = "book"
    /\ books # <<>>
    /\ movies # <<>>
    /\ BlobHolds("movie", movies)

\* no two records of a sequence have the same id
DistinctIds(items) ==
    \A i, j \in 1..Len(items) : items[i].id = items[j].id => i = j

\* C12: every in-memory collection and every stored array holds pairwise
\* distinct ids at all times; a save from a form opened for create carries an
\* id that no record of the collection has, and a save from a form opened
\* for edit carries the id of the item being edited.
C12_IdsDistinct ==
    /\ [](\A t \in ActivityType :
            /\ DistinctIds(Coll(t))
            /\ storage[KeyOf(t)].kind = "array" => DistinctIds(Load(t).items))
    /\ [][(opCount' # opCount /\ lastOp'.kind = "save") =>
            IF editingItem # None
            THEN lastOp'.item.id = editingItem.id
            ELSE Positions(lastOp'.before, lastOp'.item.id) = {}]_vars

C12_Witness ==
    /\ lastOp.kind = "save"
    /\ lastOp.editing
    /\ prevOp.kind = "save"
    /\ ~prevOp.existed
    /\ Len(OpAfter) >= 2
    /\ BlobHolds(lastOp.type, OpAfter)

\* load(category) gives the in-memory collection of every category: the same
\* records in the same order
Synced == \A t \in ActivityType : Load(t) = Value(TRUE, Coll(t))

\* the startup load read every key as load with working storage reads it,
\* and no key held a text that is not a well-formed array
LoadedWell ==
    /\ \A t \in ActivityType : storage[KeyOf(t)].kind \in {"absent", "array"}
    /\ loaded' = [t \in ActivityType |-> Load(t)]

\* C13: a startup load over absent or well-formed blobs in which no read
\* fails leaves load(category) equal to the in-memory collection for each
\* category, and every later step (select category, begin edit, submit,
\* cancel, confirmed or declined delete) whose storage write does not fail
\* keeps it so.
C13_MemoryMatchesStorage ==
    [][/\ (phase = "mount" /\ phase' # "mount" /\ LoadedWell) =>
            (Ready' /\ Synced')
       /\ (Ready /\ Synced /\ (opCount' # opCount => lastOp'.writeOk)) =>
            Synced']_vars

C13_Witness ==
    /\ Ready
    /\ Synced
    /\ loaded[lastOp.type].items # <<>>
    /\ opCount = 2
    /\ prevOp.kind = "delete"
    /\ prevOp.writeOk
    /\ lastOp.kind = "save"
    /\ lastOp.writeOk
    /\ OpAfter # <<>>

\* C14: while the movie form stays mounted no call of search leaves the log
\* or changes its query before it resolves, and the response of every call
\* that resolves, the latest or an older one, replaces the candidate list.
C14_ResponsesOverwrite ==
    [][(MovieFormShown /\ MovieFormShown') =>
         \A i \in 1..Len(requests) :
            requests[i].pending =>
               /\ i <= Len(requests')
               /\ requests'[i].query = requests[i].query
               /\ ~requests'[i].pending =>
                    /\ searchResults' = requests'[i].result.items
                    /\ ~isLoading']_vars

\* the response to the older of two queries came last: the candidates shown
\* are those of the older query
C14_Witness ==
    /\ MovieFormShown
    /\ Len(requests) = 2
    /\ ~requests[1].pending
    /\ ~requests[2].pending
    /\ requests[1].query # requests[2].query
    /\ requests[2].result.items = <<Candidate(requests[2].query)>>
    /\ searchResults = <<Candidate(requests[1].query)>>
    /\ searchQuery = requests[2].query
    /\ debouncedSearchQuery = requests[2].query

\* C15: in a build with a credential, whenever the timer expires on a
\* non-empty text (the text stayed unchanged for the whole delay), that expiry
\* makes a call of search for the text and the call issues its request,
\* whatever came before the pause.
C15_StableTextSearches ==
    (MovieFormShown /\ apiKey = ConfiguredKey /\ lastFire.final # "") =>
        /\ Len(FireCalls) = 1
        /\ FireCalls[1].query = lastFire.final
        /\ FireCalls[1].fetch

\* the transitions of the edit form other than the write of a save: a step
\* that records an item as being edited takes it from the displayed
\* collection and leaves the form open; a step that closes the form leaves
\* no item; a save closes the form and leaves no item
FormSteps ==
    /\ (editingItem' # editingItem /\ editingItem' # None) =>
         /\ isModalOpen'
         /\ \E i \in 1..Len(Coll(currentView)) :
              Coll(currentView)[i] = editingItem'
    /\ (isModalOpen /\ ~isModalOpen') => editingItem' = None
    /\ (opCount' # opCount /\ lastOp'.kind = "save") =>
         (isModalOpen /\ ~isModalOpen' /\ editingItem' = None)

\* C16 as stated: the form is closed with no item, open with no item or open
\* with an item, closed with an item being unreachable; begin edit leads to
\* open, cancel and submit to closed with no item, and when a submit closes
\* the form the stored blob holds the resulting collection.
C16_SaveWrittenAtClose ==
    /\ [](~isModalOpen => editingItem = None)
    /\ [][/\ FormSteps
          /\ (opCount' # opCount /\ lastOp'.kind = "save") =>
               BlobHolds(lastOp.type, OpAfter)']_vars

\* C16 amended: the same, the save having called the storage write with the
\* resulting collection before it closes the form: the blob holds that
\* collection when the write succeeds and keeps its value when it fails.
C16_SaveClosesAfterWrite ==
    /\ [](~isModalOpen => editingItem = None)
    /\ [][/\ FormSteps
          /\ (opCount' # opCount /\ lastOp'.kind = "save") =>
               IF lastOp'.writeOk
               THEN BlobHolds(lastOp.type, OpAfter)'
               ELSE storage' = storage]_vars

C16_Witness ==
    /\ opCount = 1
    /\ lastOp.kind = "save"
    /\ lastOp.editing
    /\ lastOp.writeOk
    /\ lastOp.item # lastOp.before[1]
    /\ ~isModalOpen
    /\ editingItem = None
    /\ BlobHolds(lastOp.type, OpAfter)
====
